---- MODULE Spec2Model ----
(***************************************************************************)
(* A model of vkdgen (src/vkdgen.py), the Vulkan D bindings generator:     *)
(* the type mapper (convertDTypeConst, makeDParamType), the model builder  *)
(* (DGenerator.beginFeature .. genCmd), the command classifier inside      *)
(* genCmd, and the emission engine (DGenerator.endFile and the issue*      *)
(* routines writing into a SourceFile).                                    *)
(*                                                                         *)
(* Text is modelled as a sequence of tokens: a token is one character      *)
(* (" ", "*", "(", "0", "U", ...) or one word that the code only ever      *)
(* treats as a unit ("const", "struct", an identifier such as "VkDevice"). *)
(* str.replace, str.strip and the two regular expressions are computed on  *)
(* these sequences the way Python computes them on characters.             *)
(***************************************************************************)
EXTENDS Integers, Sequences, FiniteSets, TLC

VARIABLES
    \* ---- DGenerator (model builder) ----
    features,       \* self.features: the closed Features, in order
    feature,        \* self.feature: None or the open Feature
    globalCmds,     \* self.globalCmds
    headerVersion,  \* self.headerVersion
    crashed,        \* an exception (a failed assert) has ended the run
    nextId,         \* identity of the next Command object constructed
    nEvents,        \* number of entity events delivered so far
    out,            \* None, or the SourceFile endFile has written out
    \* ---- type mapper, applied to one parameter element ----
    pElem,          \* the <param>/<member> element under conversion
    typeStr,        \* the mapped type string
    typeOp,         \* "none", "convert" or "param": which function ran
    \* ---- enumeration literal normalization ----
    strVal,         \* the raw value text
    prevVal,        \* the value before the last normalization
    curVal,         \* the value after the last normalization
    normCount,      \* how often normalization has been applied
    \* ---- the traversal driver ----
    lastCall        \* None, or the handler call the driver made last, with
                    \* the open Feature as it was before the call

genVars  == <<features, feature, globalCmds, headerVersion, crashed, nextId, nEvents, out>>
typeVars == <<pElem, typeStr, typeOp>>
normVars == <<strVal, prevVal, curVal, normCount>>
histVars == <<lastCall>>
vars     == <<genVars, typeVars, normVars, histVars>>

\* Python's None, and a value that is not None
None    == <<>>
Some(x) == <<x>>
TheVal(o) == o[1]

----------------------------------------------------------------------------
(* Bounds *)

\* longest raw type expression (in tokens) given to the type mapper
MaxTypLen == 8
\* longest raw enum value text (in characters) given to normalization
MaxValLen == 4
\* largest number of parameters of a command (classifier specification)
MaxParams == 2
\* largest number of Features of one run (main specification)
MaxFeatures == 2
\* largest number of entity events of one run (main specification)
MaxEntities == 2

----------------------------------------------------------------------------
(* Python string primitives on token sequences *)

RECURSIVE SeqsUpTo(_, _)
SeqsUpTo(S, n) ==
    IF n = 0 THEN {<<>>}
    ELSE LET shorter == SeqsUpTo(S, n - 1)
         IN  shorter \cup {Append(s, x) : s \in {t \in shorter : Len(t) = n - 1}, x \in S}

RECURSIVE Flatten(_)
Flatten(ss) == IF ss = <<>> THEN <<>> ELSE Head(ss) \o Flatten(Tail(ss))

IsPrefix(p, s) == Len(p) <= Len(s) /\ SubSeq(s, 1, Len(p)) = p

Drop(s, n) == SubSeq(s, n + 1, Len(s))

\* str.replace(old, new): non-overlapping occurrences, scanning left to right
RECURSIVE Replace(_, _, _)
Replace(s, old, new) ==
    IF s = <<>> THEN <<>>
    ELSE IF IsPrefix(old, s) THEN new \o Replace(Drop(s, Len(old)), old, new)
    ELSE <<Head(s)>> \o Replace(Tail(s), old, new)

IsSpace(c) == c \in {" ", "\n"}

RECURSIVE LStrip(_)
LStrip(s) == IF s # <<>> /\ IsSpace(Head(s)) THEN LStrip(Tail(s)) ELSE s

RECURSIVE RStrip(_)
RStrip(s) == IF s # <<>> /\ IsSpace(s[Len(s)]) THEN RStrip(SubSeq(s, 1, Len(s) - 1)) ELSE s

\* str.strip()
Strip(s) == RStrip(LStrip(s))

AllSpace(s, a, b) == \A k \in a..b : IsSpace(s[k])

\* the regular expression "." matches anything but a line break
NoNewline(s, a, b) == \A k \in a..b : s[k] # "\n"

\* the greatest element of a non-empty set of integer tuples in
\* lexicographic order: the match a backtracking matcher finds first when
\* every quantifier is greedy
LexLess2(p, q) == p[1] < q[1] \/ (p[1] = q[1] /\ p[2] < q[2])
Greedy2(M) == CHOOSE m \in M : \A o \in M : o = m \/ LexLess2(o, m)

----------------------------------------------------------------------------
(* Type mapper: src/vkdgen.py lines 17-110 *)

noneStr(str) == IF str = None THEN <<>> ELSE str

\* re_single_const = ^const\s+(.+)\*\s*$
\* a match is <<i, j>>: the \s+ run is s[2..i], the group is s[i+1..j],
\* the literal * is s[j+1] and s[j+2..] is white space
re_single_const(s) ==
    {m \in (2..Len(s)) \X (3..Len(s)) :
        /\ s[1] = "const"
        /\ AllSpace(s, 2, m[1])
        /\ m[2] >= m[1] + 1
        /\ NoNewline(s, m[1] + 1, m[2])
        /\ m[2] + 1 <= Len(s)
        /\ s[m[2] + 1] = "*"
        /\ AllSpace(s, m[2] + 2, Len(s))}

\* re_double_const = ^const\s+(.+)\*\s+const\*\s*$
\* a match is <<i, j>>: the first \s+ run is s[2..i], the group is
\* s[i+1..j], then *, a second \s+ run, const, * and trailing white space
re_double_const(s) ==
    {m \in (2..Len(s)) \X (3..Len(s)) :
        /\ s[1] = "const"
        /\ AllSpace(s, 2, m[1])
        /\ m[2] >= m[1] + 1
        /\ NoNewline(s, m[1] + 1, m[2])
        /\ m[2] + 1 <= Len(s)
        /\ s[m[2] + 1] = "*"
        /\ \E k \in (m[2] + 2)..(Len(s) - 2) :
              /\ AllSpace(s, m[2] + 2, k)
              /\ s[k + 1] = "const"
              /\ s[k + 2] = "*"
              /\ AllSpace(s, k + 3, Len(s))}

Group1(s, m) == SubSeq(s, m[1] + 1, m[2])

\* a plausible slip: the single-indirection rule tried first
convertDTypeConst_singleFirst(typ) ==
    IF re_single_const(typ) # {}
    THEN <<"const", "(">> \o Group1(typ, Greedy2(re_single_const(typ))) \o <<")", "*">>
    ELSE IF re_double_const(typ) # {}
    THEN <<"const", "(">> \o Group1(typ, Greedy2(re_double_const(typ))) \o <<"*", ")", "*">>
    ELSE typ

convertDTypeConst(typ) ==
    IF re_double_const(typ) # {}
    THEN <<"const", "(">> \o Group1(typ, Greedy2(re_double_const(typ))) \o <<"*", ")", "*">>
    ELSE IF re_single_const(typ) # {}
    THEN <<"const", "(">> \o Group1(typ, Greedy2(re_single_const(typ))) \o <<")", "*">>
    ELSE typ

makePart(part) ==
    Replace(Strip(Replace(noneStr(part), <<"struct", " ">>, <<>>)), <<"const">>, <<"const", " ">>)

\* the loop of makeDParamType over the children of the element
RECURSIVE makeDParamChildren(_)
makeDParamChildren(children) ==
    IF children = <<>> THEN <<>>
    ELSE LET elem == Head(children)
         IN  (IF elem.tag # "name" THEN makePart(elem.text) ELSE <<>>)
             \o makePart(elem.tail)
             \o makeDParamChildren(Tail(children))

makeDParamType(param) ==
    convertDTypeConst(
        Replace(makePart(param.text) \o makeDParamChildren(param.children),
                <<"const", " ", "*">>, <<"const", "*">>))

\* identifiers are token sequences of one word: <<"module">>
dkeywords == {<<"module">>}

mapDName(name) == IF name \in dkeywords THEN name \o <<"_">> ELSE name

----------------------------------------------------------------------------
(* Enumeration literal normalization: src/vkdgen.py lines 394-399 *)

normalizeValue(v) ==
    Replace(Replace(Replace(Replace(Replace(v,
        <<"0", "U", "L", "L">>, <<"0">>),
        <<"0", "L">>, <<"0">>),
        <<"0", "U">>, <<"0">>),
        <<"(">>, <<>>),
        <<")">>, <<>>)

----------------------------------------------------------------------------
(* The three groups of variables at rest *)

GenIdle ==
    /\ features = <<>>
    /\ feature = None
    /\ globalCmds = <<>>
    /\ headerVersion = <<>>
    /\ crashed = FALSE
    /\ nextId = 1
    /\ nEvents = 0
    /\ out = None
    /\ lastCall = None

TypeIdle == pElem = [text |-> None, children |-> <<>>] /\ typeStr = <<>> /\ typeOp = "none"

NormIdle == strVal = <<>> /\ prevVal = <<>> /\ curVal = <<>> /\ normCount = 0

----------------------------------------------------------------------------
(* Specification of the type mapper: one element, converted once *)

TypTokens == {"const", " ", "*", "T"}

\* an element without children holding a raw type expression
RawElem(s) == [text |-> s, children |-> <<>>]

\* an element as the registry writes a parameter or member:
\*   q <type>T</type> tl <name>x</name> nt
ShapedElem(q, tl, nt) ==
    [text |-> q,
     children |-> <<[tag |-> "type", text |-> <<"T">>, tail |-> tl],
                    [tag |-> "name", text |-> <<"x">>, tail |-> nt]>>]

Quals == {None, <<"const", " ">>, <<"struct", " ">>, <<"const", " ", "struct", " ">>}

\* the elements of at most n tokens given to the type mapper
TypeElems(n) ==
    {RawElem(s) : s \in SeqsUpTo(TypTokens, n)}
    \cup {ShapedElem(q, tl, nt) : q \in Quals,
                                  tl \in SeqsUpTo({"const", " ", "*"}, n - 3),
                                  nt \in {None, <<"[", "4", "]">>}}

InitType == GenIdle /\ NormIdle /\ pElem \in TypeElems(MaxTypLen) /\ typeStr = <<>> /\ typeOp = "none"

\* convertDTypeConst applied to the text of a childless element
ConvertType ==
    /\ typeOp = "none"
    /\ pElem.children = <<>>
    /\ typeStr' = convertDTypeConst(pElem.text)
    /\ typeOp' = "convert"
    /\ UNCHANGED <<pElem, genVars, normVars, histVars>>

\* makeDParamType applied to the element
MakeParamType ==
    /\ typeOp = "none"
    /\ typeStr' = makeDParamType(pElem)
    /\ typeOp' = "param"
    /\ UNCHANGED <<pElem, genVars, normVars, histVars>>

NextType == ConvertType \/ MakeParamType

SpecType == InitType /\ [][NextType]_vars

----------------------------------------------------------------------------
(* Specification of enumeration literal normalization, applied repeatedly *)

\* how often normalization is re-applied to its own result
MaxApply == 2

ValChars == {"0", "1", "U", "L", "(", ")"}

InitNorm ==
    /\ GenIdle /\ TypeIdle
    /\ strVal \in SeqsUpTo(ValChars, MaxValLen)
    /\ prevVal = strVal
    /\ curVal = strVal
    /\ normCount = 0

Normalize ==
    /\ normCount < MaxApply
    /\ prevVal' = curVal
    /\ curVal' = normalizeValue(curVal)
    /\ normCount' = normCount + 1
    /\ UNCHANGED <<strVal, genVars, typeVars, histVars>>

NextNorm == Normalize

SpecNorm == InitNorm /\ [][NextNorm]_vars

----------------------------------------------------------------------------
(* DGenerator: the Feature Model, src/vkdgen.py lines 140-259 *)

FeatureGuard(name, versionGuards, stmts) ==
    [name |-> name, versionGuards |-> versionGuards, stmts |-> stmts]

BaseType(name, alias) == [name |-> name, alias |-> alias]

Const(name, value) == [name |-> name, value |-> value]

Enum(name, members, values) == [name |-> name, members |-> members, values |-> values]

Param(name, typ) == [name |-> name, typeStr |-> typ]

Struct(name, category, params) == [name |-> name, category |-> category, params |-> params]

\* id stands for the identity of the Python object: genCmd appends one and
\* the same object to cmds and to a dispatch tier
Command(id, name, ret, params) ==
    [id |-> id, name |-> name, returnType |-> ret, params |-> params]

Feature(name, guard) ==
    [name |-> name, guard |-> guard,
     baseTypes |-> <<>>, handles |-> <<>>, ndHandles |-> <<>>, consts |-> <<>>,
     funcptrs |-> <<>>, enums |-> <<>>, structs |-> <<>>, cmds |-> <<>>,
     instanceCmds |-> <<>>, deviceCmds |-> <<>>]

globalCmdNames ==
    {"vkGetInstanceProcAddr", "vkEnumerateInstanceExtensionProperties",
     "vkEnumerateInstanceLayerProperties", "vkCreateInstance"}

\* the keys of self.featureGuards in insertion order, the order in which a
\* dict is iterated
featureGuardKeys == <<"VK_KHR_win32_surface", "VK_KHR_xcb_surface", "VK_KHR_wayland_surface">>

featureGuards ==
    [k \in {featureGuardKeys[i] : i \in 1..Len(featureGuardKeys)} |->
        CASE k = "VK_KHR_win32_surface" ->
                FeatureGuard(k, <<"Windows">>,
                    <<"import core.sys.windows.windef : HINSTANCE, HWND;">>)
          [] k = "VK_KHR_xcb_surface" ->
                FeatureGuard(k, <<"linux", "VkXcb">>,
                    <<"import xcb.xcb : xcb_connection_t, xcb_visualid_t, xcb_window_t;">>)
          [] k = "VK_KHR_wayland_surface" ->
                FeatureGuard(k, <<"linux", "VkWayland">>,
                    <<"import wayland.native.client : wl_display, wl_proxy;",
                      "alias wl_surface = wl_proxy;">>)]

\* the mapped types that make a command a device command
DeviceParamTypes == {<<"VkDevice">>, <<"VkQueue">>, <<"VkCommandBuffer">>}

----------------------------------------------------------------------------
(* Registry elements as the traversal driver hands them over *)

\* elem.find("name").text of a <param> or <member>
RECURSIVE FindName(_)
FindName(children) ==
    IF children = <<>> THEN None
    ELSE IF Head(children).tag = "name" THEN Head(children).text
    ELSE FindName(Tail(children))

\* a <param>/<member>: q <type>t</type> tl <name>n</name>
ParamElem(q, t, tl, n) ==
    [text |-> q,
     children |-> <<[tag |-> "type", text |-> <<t>>, tail |-> tl],
                    [tag |-> "name", text |-> <<n>>, tail |-> None]>>]

\* a <type> element: the category attribute (None when absent), the text of
\* its first <type> child, its <member> children, its own text and the
\* pieces elem.itertext() yields
TypeInfo(category, typ, members, text, itertext) ==
    [category |-> category, type |-> typ, members |-> members,
     text |-> text, itertext |-> itertext]

\* a <command> element: the text of ./proto/type and the <param> children
CmdInfo(ret, params) == [ret |-> ret, params |-> params]

----------------------------------------------------------------------------
(* DGenerator: the handlers, src/vkdgen.py lines 307-456 *)

\* the driver delivers events while no exception has ended the run and
\* before endFile
Running == ~crashed /\ out = None

OpenFeature == TheVal(feature)

beginFeature(name) ==
    /\ Running
    /\ feature = None
    /\ Len(features) < MaxFeatures
    /\ \A i \in 1..Len(features) : features[i].name # name
    /\ feature' = Some(Feature(name,
            IF name \in DOMAIN featureGuards THEN Some(featureGuards[name]) ELSE None))
    /\ UNCHANGED <<features, globalCmds, headerVersion, crashed, nextId, nEvents, out>>

\* a plausible slip: the Feature put in front of the list
endFeature_prepend ==
    /\ Running
    /\ feature # None
    /\ features' = <<OpenFeature>> \o features
    /\ feature' = None
    /\ UNCHANGED <<globalCmds, headerVersion, crashed, nextId, nEvents, out>>

endFeature ==
    /\ Running
    /\ feature # None
    /\ features' = Append(features, OpenFeature)
    /\ feature' = None
    /\ UNCHANGED <<globalCmds, headerVersion, crashed, nextId, nEvents, out>>

\* the members loop of genStruct
RECURSIVE genStructParams(_)
genStructParams(members) ==
    IF members = <<>> THEN <<>>
    ELSE LET member  == Head(members)
             memName == FindName(member.children)
         IN  <<Param(IF memName \in dkeywords THEN memName \o <<"_">> ELSE memName,
                     makeDParamType(member))>>
             \o genStructParams(Tail(members))

\* the Feature after genStruct
genStruct(f, typeinfo, name) ==
    [f EXCEPT !.structs =
        Append(@, Struct(name, TheVal(typeinfo.category), genStructParams(typeinfo.members)))]

\* re_funcptr = ^typedef (.+) \(VKAPI_PTR \*$ : None, or the match's group 1
re_funcptr(s) ==
    LET pre == <<"typedef", " ">>
        suf == <<" ", "(", "VKAPI_PTR", " ", "*">>
        n   == Len(s)
    IN  IF /\ n >= Len(pre) + 1 + Len(suf)
           /\ IsPrefix(pre, s)
           /\ SubSeq(s, n - Len(suf) + 1, n) = suf
           /\ NoNewline(s, Len(pre) + 1, n - Len(suf))
        THEN Some(SubSeq(s, Len(pre) + 1, n - Len(suf)))
        ELSE None

\* str.splitlines()
RECURSIVE SplitLines(_)
SplitLines(s) ==
    IF s = <<>> THEN <<>>
    ELSE LET brk == {k \in 1..Len(s) : s[k] = "\n"}
             n   == IF brk = {} THEN Len(s) + 1 ELSE CHOOSE k \in brk : \A j \in brk : k <= j
         IN  <<SubSeq(s, 1, n - 1)>> \o SplitLines(Drop(s, n))

\* str.split(): the words between runs of white space
RECURSIVE Words(_)
Words(s) ==
    LET t == LStrip(s)
    IN  IF t = <<>> THEN <<>>
        ELSE LET sp == {k \in 1..Len(t) : IsSpace(t[k])}
                 n  == IF sp = {} THEN Len(t) + 1 ELSE CHOOSE k \in sp : \A j \in sp : k <= j
             IN  <<SubSeq(t, 1, n - 1)>> \o Words(Drop(t, n - 1))

\* the parameter lines of a function pointer typedef: ok is FALSE when the
\* assert on the line's word count fails
RECURSIVE funcptrParams(_)
funcptrParams(lines) ==
    IF lines = <<>> THEN [ok |-> TRUE, params |-> <<>>]
    ELSE LET lineSplit == Words(Head(lines))
             rest      == funcptrParams(Tail(lines))
             isConst   == Len(lineSplit) = 3 /\ lineSplit[1] = <<"const">>
             typ       == IF isConst
                          THEN Replace(<<"const", "(">> \o lineSplit[2] \o <<")">>,
                                       <<"*", ")">>, <<")", "*">>)
                          ELSE lineSplit[1]
             rawName   == IF isConst THEN lineSplit[3] ELSE lineSplit[2]
             paramName == Replace(Replace(Replace(rawName, <<",">>, <<>>), <<")">>, <<>>), <<";">>, <<>>)
         IN  IF Len(lineSplit) = 0 THEN rest
             ELSE IF ~isConst /\ Len(lineSplit) # 2 THEN [ok |-> FALSE, params |-> <<>>]
             ELSE [ok |-> rest.ok, params |-> <<Param(paramName, typ)>> \o rest.params]

\* paramsTxt of the funcpointer branch: the text from the third piece on,
\* without its first two characters
funcptrParamsTxt(itertext) == Drop(Flatten(Drop(itertext, 2)), 2)

\* a plausible slip: the assert on the second marker left out
handleKind_noAssert(handleType) ==
    IF handleType = "VK_DEFINE_HANDLE" THEN "handles" ELSE "ndHandles"

\* the list a handle goes to by its marker (lines 340-346), or the failure
\* of the assert
handleKind(handleType) ==
    IF handleType = "VK_DEFINE_HANDLE" THEN "handles"
    ELSE IF handleType = "VK_DEFINE_NON_DISPATCHABLE_HANDLE" THEN "ndHandles"
    ELSE "AssertionError"

\* a plausible slip: the alias test left out
Truthy_never(alias) == FALSE

\* `if alias:` : the alias is neither None nor the empty string
Truthy(alias) == alias # None /\ TheVal(alias) # ""

genType(typeinfo, name, alias) ==
    /\ Running
    /\ feature # None
    /\ nEvents < MaxEntities
    /\ nEvents' = nEvents + 1
    /\ UNCHANGED <<features, globalCmds, nextId, out>>
    /\ IF Truthy(alias) \/ typeinfo.category = None
       THEN UNCHANGED <<feature, headerVersion, crashed>>
       ELSE LET category == TheVal(typeinfo.category)
                f        == OpenFeature
            IN  CASE category \in {"basetype", "bitmask"} ->
                        /\ feature' = Some([f EXCEPT !.baseTypes = Append(@, BaseType(name, typeinfo.type))])
                        /\ UNCHANGED <<headerVersion, crashed>>
                  [] category = "handle" ->
                        IF handleKind(typeinfo.type) = "handles"
                        THEN /\ feature' = Some([f EXCEPT !.handles = Append(@, name)])
                             /\ UNCHANGED <<headerVersion, crashed>>
                        ELSE IF handleKind(typeinfo.type) = "ndHandles"
                        THEN /\ feature' = Some([f EXCEPT !.ndHandles = Append(@, name)])
                             /\ UNCHANGED <<headerVersion, crashed>>
                        ELSE /\ crashed' = TRUE
                             /\ UNCHANGED <<feature, headerVersion>>
                  [] category \in {"struct", "union"} ->
                        /\ feature' = Some(genStruct(f, typeinfo, name))
                        /\ UNCHANGED <<headerVersion, crashed>>
                  [] category = "define" /\ name = "VK_HEADER_VERSION" ->
                        /\ headerVersion' = IF Len(typeinfo.itertext) >= 3
                                            THEN typeinfo.itertext[3] ELSE headerVersion
                        /\ UNCHANGED <<feature, crashed>>
                  [] category = "funcpointer" ->
                        LET returnType == re_funcptr(typeinfo.text)
                            paramsTxt  == funcptrParamsTxt(typeinfo.itertext)
                            parsed     == IF paramsTxt # <<"void", ")", ";">>
                                             /\ paramsTxt # <<" ", "void", " ", ")", ";">>
                                          THEN funcptrParams(SplitLines(paramsTxt))
                                          ELSE [ok |-> TRUE, params |-> <<>>]
                        IN  IF returnType = None \/ ~parsed.ok
                            THEN /\ crashed' = TRUE
                                 /\ UNCHANGED <<feature, headerVersion>>
                            ELSE /\ feature' = Some([f EXCEPT !.funcptrs =
                                        Append(@, Command(0, name, TheVal(returnType), parsed.params))])
                                 /\ UNCHANGED <<headerVersion, crashed>>
                  [] OTHER -> UNCHANGED <<feature, headerVersion, crashed>>

\* strVal is what self.enumToValue(enuminfo.elem, False) returns
genEnum(strValue, name, alias) ==
    /\ Running
    /\ feature # None
    /\ nEvents < MaxEntities
    /\ nEvents' = nEvents + 1
    /\ feature' = Some([OpenFeature EXCEPT !.consts = Append(@, Const(name, normalizeValue(strValue)))])
    /\ UNCHANGED <<features, globalCmds, headerVersion, crashed, nextId, out>>

\* enums is what self.checkDuplicateEnums returns: the <enum> children,
\* each with its name and the string self.enumToValue(elem, True) returns
genGroup(enums, name, alias) ==
    /\ Running
    /\ feature # None
    /\ nEvents < MaxEntities
    /\ nEvents' = nEvents + 1
    /\ feature' = Some([OpenFeature EXCEPT !.enums =
            Append(@, Enum(name, [i \in 1..Len(enums) |-> enums[i].name],
                                 [i \in 1..Len(enums) |-> enums[i].strVal]))])
    /\ UNCHANGED <<features, globalCmds, headerVersion, crashed, nextId, out>>

\* the params loop of genCmd
genCmdParams(pElems) ==
    [i \in 1..Len(pElems) |-> Param(FindName(pElems[i].children), makeDParamType(pElems[i]))]

\* a plausible slip: `if` where the code has `elif`, so that a command of
\* the global denylist also runs through the parameter test
Classify_ifNotElif(name, params) ==
    (IF name \in globalCmdNames THEN {"global"} ELSE {})
    \cup (IF name # "vkGetDeviceProcAddr" /\ Len(params) # 0
             /\ params[1].typeStr \in DeviceParamTypes
          THEN {"device"} ELSE {"instance"})

\* a plausible slip: any parameter, not the first, decides
Classify_anyParam(name, params) ==
    IF name \in globalCmdNames THEN {"global"}
    ELSE IF name # "vkGetDeviceProcAddr"
            /\ \E i \in 1..Len(params) : params[i].typeStr \in DeviceParamTypes
    THEN {"device"}
    ELSE {"instance"}

\* a plausible slip: no exception for vkGetDeviceProcAddr
Classify_noProcAddrException(name, params) ==
    IF name \in globalCmdNames THEN {"global"}
    ELSE IF Len(params) # 0 /\ params[1].typeStr \in DeviceParamTypes
    THEN {"device"}
    ELSE {"instance"}

\* a plausible slip: the parameter test before the denylist test
Classify_paramsFirst(name, params) ==
    IF name # "vkGetDeviceProcAddr" /\ Len(params) # 0
       /\ params[1].typeStr \in DeviceParamTypes
    THEN {"device"}
    ELSE IF name \in globalCmdNames THEN {"global"}
    ELSE {"instance"}

\* a plausible slip: `not in` for `in` in the test of the first parameter
Classify_notIn(name, params) ==
    IF name \in globalCmdNames THEN {"global"}
    ELSE IF name # "vkGetDeviceProcAddr" /\ Len(params) # 0
            /\ params[1].typeStr \notin DeviceParamTypes
    THEN {"device"}
    ELSE {"instance"}

\* the dispatch tiers genCmd appends a command to (lines 451-456): the
\* if / elif / else chain appends to exactly one list
Classify(name, params) ==
    IF name \in globalCmdNames THEN {"global"}
    ELSE IF name # "vkGetDeviceProcAddr" /\ Len(params) # 0
            /\ params[1].typeStr \in DeviceParamTypes
    THEN {"device"}
    ELSE {"instance"}

genCmd(cmdinfo, name, alias) ==
    /\ Running
    /\ feature # None
    /\ nEvents < MaxEntities
    /\ nEvents' = nEvents + 1
    /\ nextId' = nextId + 1
    /\ LET cmd   == Command(nextId, name, cmdinfo.ret, genCmdParams(cmdinfo.params))
           tiers == Classify(name, cmd.params)
           f     == [OpenFeature EXCEPT !.cmds = Append(@, cmd)]
       IN  /\ globalCmds' = IF "global" \in tiers THEN Append(globalCmds, cmd) ELSE globalCmds
           /\ feature' = Some(
                [f EXCEPT !.deviceCmds   = IF "device" \in tiers THEN Append(@, cmd) ELSE @,
                          !.instanceCmds = IF "instance" \in tiers THEN Append(@, cmd) ELSE @])
    /\ UNCHANGED <<features, headerVersion, crashed, out>>

----------------------------------------------------------------------------
(* SourceFile, src/vkdgen.py lines 25-71.                                  *)
(*                                                                         *)
(* An emission routine is modelled by the sequence of calls it makes on    *)
(* the SourceFile, in order; Run performs them.  A call is sf(fmt, args)   *)
(* ("line"), sf.indent() / sf.unindent(), or entering / leaving a          *)
(* `with sf.indentBlock()` block.  Three more entries are bookkeeping and  *)
(* change nothing the program owns: "section" names the part of the file   *)
(* being written, "beginGuard" / "endGuard" mark a call of                 *)
(* Feature.beginGuard / Feature.endGuard.  The blank padding arguments     *)
(* (spacer), which only align columns, are left out of args.  own names    *)
(* the Feature an entity's line is emitted for.                            *)
(***************************************************************************)

Line(fmt, args) == [op |-> "line", fmt |-> fmt, args |-> args, own |-> ""]

EntLine(f, fmt, args) == [op |-> "line", fmt |-> fmt, args |-> args, own |-> f]

Blank == Line("", <<>>)

Section(sec) == [op |-> "section", sec |-> sec]

indent == [op |-> "indent"]

unindent == [op |-> "unindent"]

\* with sf.indentBlock(): body
indentBlock(body) == <<[op |-> "enter"]>> \o body \o <<[op |-> "exit"]>>

\* the formats that open a brace block of the emitted D text; "}" closes one
BlockOpeners ==
    {"version(%s) {", "version(X86_64) {", "else {", "extern(C) nothrow {",
     "extern(C) nothrow @nogc {", "enum %s%s {", "%s %s {", "%s %s (%s) {",
     "final class VkGlobalCmds {", "this (PFN_vkGetInstanceProcAddr loader) {",
     "final class VkInstanceCmds {", "this (VkInstance instance, VkGlobalCmds globalCmds) {",
     "final class VkDeviceCmds {", "this (VkDevice device, VkInstanceCmds instanceCmds) {"}

\* the tokens of the feature-guard blocks among the open blocks, outermost first
GuardTokens(blocks) == SelectSeq(blocks, LAMBDA b : b # "")

\* SourceFile.__init__; blocks (the open brace blocks of the text so far),
\* sec and calls are bookkeeping
SourceFile ==
    [lines |-> <<>>, indent |-> 0, blocks |-> <<>>, sec |-> "prelude", calls |-> <<>>]

\* SourceFile.__call__: append the line at the current indentation
sfCall(sf, o) ==
    LET closed == IF o.fmt = "}" /\ sf.blocks # <<>>
                  THEN SubSeq(sf.blocks, 1, Len(sf.blocks) - 1) ELSE sf.blocks
    IN  [sf EXCEPT
            !.lines  = Append(@, [indent |-> sf.indent, fmt |-> o.fmt, args |-> o.args,
                                  own |-> o.own, sec |-> sf.sec,
                                  guards |-> GuardTokens(closed)]),
            !.blocks = IF o.fmt = "version(%s) {" THEN Append(closed, o.args[1])
                       ELSE IF o.fmt \in BlockOpeners THEN Append(closed, "")
                       ELSE closed]

\* a call of Feature.beginGuard or Feature.endGuard, noted with the
\* indentation and the number of open feature-guard blocks at that moment
NoteCall(sf, o) ==
    [sf EXCEPT !.calls = Append(@, [op |-> o.op, f |-> o.f, guarded |-> o.guarded,
                                    sec |-> sf.sec, indent |-> sf.indent,
                                    depth |-> Len(GuardTokens(sf.blocks))])]

SfStep(sf, o) ==
    CASE o.op = "line"                -> sfCall(sf, o)
      [] o.op \in {"indent", "enter"}  -> [sf EXCEPT !.indent = @ + 1]
      [] o.op \in {"unindent", "exit"} -> [sf EXCEPT !.indent = @ - 1]
      [] o.op = "section"             -> [sf EXCEPT !.sec = o.sec]
      [] o.op \in {"beginGuard", "endGuard"} -> NoteCall(sf, o)

\* the calls ops[lo..hi] performed in order.  The range is halved, and the
\* left half is evaluated (its indentation inspected) before the right half
\* starts, so that the evaluation stays shallow; the order of the calls is
\* that of ops
RECURSIVE RunRange(_, _, _, _)
RunRange(sf, ops, lo, hi) ==
    IF lo > hi THEN sf
    ELSE IF lo = hi THEN SfStep(sf, ops[lo])
    ELSE LET mid  == (lo + hi) \div 2
             left == RunRange(sf, ops, lo, mid)
         IN  IF left.indent = left.indent THEN RunRange(left, ops, mid + 1, hi) ELSE left

Run(sf, ops) == RunRange(sf, ops, 1, Len(ops))

----------------------------------------------------------------------------
(* Feature guards, src/vkdgen.py lines 148-156 and 208-214 *)

\* a plausible slip: end closes one level whatever the number of tokens
FeatureGuard_end_once(fg) == <<unindent, Line("}", <<>>)>>

FeatureGuard_begin(fg) ==
    Flatten([i \in 1..Len(fg.versionGuards) |->
                <<Line("version(%s) {", <<fg.versionGuards[i]>>), indent>>])

FeatureGuard_end(fg) ==
    Flatten([i \in 1..Len(fg.versionGuards) |-> <<unindent, Line("}", <<>>)>>])

beginGuard(f) ==
    <<[op |-> "beginGuard", f |-> f.name, guarded |-> f.guard # None]>>
    \o (IF f.guard # None THEN FeatureGuard_begin(TheVal(f.guard)) ELSE <<>>)

endGuard(f) ==
    (IF f.guard # None THEN FeatureGuard_end(TheVal(f.guard)) ELSE <<>>)
    \o <<[op |-> "endGuard", f |-> f.name, guarded |-> f.guard # None]>>

----------------------------------------------------------------------------
(* Emission routines, src/vkdgen.py lines 458-818 *)

\* self.basicTypes in insertion order
basicTypes ==
    <<<<"uint8_t", "ubyte">>, <<"uint16_t", "ushort">>, <<"uint32_t", "uint">>,
      <<"uint64_t", "ulong">>, <<"int8_t", "byte">>, <<"int16_t", "short">>,
      <<"int32_t", "int">>, <<"int64_t", "long">>>>

\* a plausible slip: every Feature taken, the empty groups too
FeatsWith_all(kind) == features

\* [f for f in self.features if len(f.<kind>) > 0]
FeatsWith(kind) == SelectSeq(features, LAMBDA f : Len(f[kind]) > 0)

\* if i != 0: sf()
BlankUnlessFirst(i) == IF i # 1 THEN <<Blank>> ELSE <<>>

issueBaseTypes ==
    LET feats == FeatsWith("baseTypes")
    IN  <<Section("baseTypes"), Blank, Line("// Basic types definition", <<>>), Blank>>
        \o [i \in 1..Len(basicTypes) |->
                Line("alias %s%s = %s;", <<basicTypes[i][1], basicTypes[i][2]>>)]
        \o Flatten([i \in 1..Len(feats) |->
                <<Blank, Line("// %s", <<feats[i].name>>)>>
                \o beginGuard(feats[i])
                \o [j \in 1..Len(feats[i].baseTypes) |->
                        EntLine(feats[i].name, "alias %s%s = %s;",
                                <<feats[i].baseTypes[j].name, feats[i].baseTypes[j].alias>>)]
                \o endGuard(feats[i])])

\* one branch of the non-dispatchable handles: the Features' groups
ndHandleGroups(feats, fmt) ==
    Flatten([i \in 1..Len(feats) |->
        BlankUnlessFirst(i)
        \o <<Line("// %s", <<feats[i].name>>)>>
        \o beginGuard(feats[i])
        \o [j \in 1..Len(feats[i].ndHandles) |->
                EntLine(feats[i].name, fmt, <<feats[i].ndHandles[j]>>)]
        \o endGuard(feats[i])])

issueHandles ==
    LET feats   == FeatsWith("handles")
        ndFeats == FeatsWith("ndHandles")
    IN  <<Section("handles"), Blank, Line("// Handles", <<>>), Blank>>
        \o Flatten([i \in 1..Len(feats) |->
                BlankUnlessFirst(i)
                \o <<Line("// %s", <<feats[i].name>>)>>
                \o beginGuard(feats[i])
                \o [j \in 1..Len(feats[i].handles) |->
                        EntLine(feats[i].name, "struct %s_T; %salias %s %s= %s_T*;",
                                <<feats[i].handles[j]>>)]
                \o endGuard(feats[i])])
        \o <<Section("ndHandles"), Blank, Line("// Non-dispatchable handles", <<>>), Blank,
             Line("version(X86_64) {", <<>>)>>
        \o indentBlock(ndHandleGroups(ndFeats, "struct %s_T; %salias %s %s= %s_T*;"))
        \o <<Line("}", <<>>), Line("else {", <<>>)>>
        \o indentBlock(ndHandleGroups(ndFeats, "alias %s %s= ulong;"))
        \o <<Line("}", <<>>)>>

\* the lines of one function pointer alias
funcptrLines(f, fp) ==
    IF Len(fp.params) = 0
    THEN <<EntLine(f, "alias %s = %s function();", <<fp.name, fp.returnType>>)>>
    ELSE <<EntLine(f, "alias %s = %s function(", <<fp.name, fp.returnType>>)>>
         \o indentBlock([i \in 1..Len(fp.params) |->
                EntLine(f, "%s%s %s%s",
                        <<fp.params[i].typeStr, fp.params[i].name,
                          IF i = Len(fp.params) THEN "" ELSE ",">>)])
         \o <<EntLine(f, ");", <<>>)>>

issueFuncptrs ==
    LET feats == FeatsWith("funcptrs")
    IN  <<Section("funcptrs"), Blank, Line("// Function pointers", <<>>), Blank,
          Line("extern(C) nothrow {", <<>>)>>
        \o indentBlock(Flatten([i \in 1..Len(feats) |->
                BlankUnlessFirst(i)
                \o <<Line("// %s", <<feats[i].name>>)>>
                \o beginGuard(feats[i])
                \o Flatten([j \in 1..Len(feats[i].funcptrs) |->
                        funcptrLines(feats[i].name, feats[i].funcptrs[j])])
                \o endGuard(feats[i])]))
        \o <<Line("}", <<>>)>>

issueConsts ==
    LET feats == FeatsWith("consts")
    IN  <<Section("consts"), Blank, Line("// Constants", <<>>)>>
        \o Flatten([i \in 1..Len(feats) |->
                <<Blank, Line("// %s", <<feats[i].name>>)>>
                \o beginGuard(feats[i])
                \o [j \in 1..Len(feats[i].consts) |->
                        EntLine(feats[i].name, "enum %s%s = %s;",
                                <<feats[i].consts[j].name, feats[i].consts[j].value>>)]
                \o endGuard(feats[i])])

\* e.name.endswith("FlagBits"), on the names the specifications use
EndsWithFlagBits(name) ==
    Len(name) >= 8 /\ SubSeq(name, Len(name) - 7, Len(name)) = "FlagBits"

\* the lines of one enumeration
enumLines(f, e) ==
    <<EntLine(f, "enum %s%s {", <<e.name, IF EndsWithFlagBits(e.name) THEN " : VkFlags" ELSE "">>)>>
    \o indentBlock([i \in 1..Len(e.members) |->
            EntLine(f, "%s%s = %s,", <<e.members[i], e.values[i]>>)])
    \o <<EntLine(f, "}", <<>>)>>
    \o [i \in 1..Len(e.members) |-> EntLine(f, "enum %s%s = %s.%s;", <<e.members[i], e.name, e.members[i]>>)]
    \o <<Blank>>

issueEnums ==
    LET feats == FeatsWith("enums")
    IN  <<Section("enums"), Blank, Line("// Enumerations", <<>>)>>
        \o Flatten([i \in 1..Len(feats) |->
                <<Blank, Line("// %s", <<feats[i].name>>)>>
                \o beginGuard(feats[i])
                \o Flatten([j \in 1..Len(feats[i].enums) |-> enumLines(feats[i].name, feats[i].enums[j])])
                \o endGuard(feats[i])])

\* the lines of one structure
structLines(f, st) ==
    <<EntLine(f, "%s %s {", <<st.category, st.name>>)>>
    \o indentBlock([i \in 1..Len(st.params) |->
            EntLine(f, "%s%s %s;", <<st.params[i].typeStr, st.params[i].name>>)])
    \o <<EntLine(f, "}", <<>>)>>

issueStructs ==
    LET feats == FeatsWith("structs")
    IN  <<Section("structs"), Blank, Line("// Structures", <<>>)>>
        \o Flatten([i \in 1..Len(feats) |->
                <<Blank, Line("// %s", <<feats[i].name>>)>>
                \o beginGuard(feats[i])
                \o Flatten([j \in 1..Len(feats[i].structs) |-> structLines(feats[i].name, feats[i].structs[j])])
                \o endGuard(feats[i])])

\* the lines of one command pointer alias
cmdPtrAliasLines(f, cmd) ==
    IF Len(cmd.params) = 0
    THEN <<EntLine(f, "alias PFN_{} = {} function ();", <<cmd.name, cmd.returnType>>)>>
    ELSE <<EntLine(f, "alias PFN_{} = {} function (", <<cmd.name, cmd.returnType>>)>>
         \o indentBlock([i \in 1..Len(cmd.params) |->
                EntLine(f, "%s%s %s,", <<cmd.params[i].typeStr, cmd.params[i].name>>)])
         \o <<EntLine(f, ");", <<>>)>>

issueCmdPtrAliases ==
    LET feats == FeatsWith("cmds")
    IN  <<Section("cmdPtrAliases"), Blank, Line("// Command pointer aliases", <<>>), Blank,
          Line("extern(C) nothrow @nogc {", <<>>)>>
        \o indentBlock(Flatten([i \in 1..Len(feats) |->
                BlankUnlessFirst(i)
                \o <<Line("// %s", <<feats[i].name>>)>>
                \o beginGuard(feats[i])
                \o Flatten([j \in 1..Len(feats[i].cmds) |-> cmdPtrAliasLines(feats[i].name, feats[i].cmds[j])])
                \o endGuard(feats[i])]))
        \o <<Line("}", <<>>), Blank>>

\* cmd.name[2:]
membName(cmd) == SubSeq(cmd.name, 3, Len(cmd.name))

\* the name of the Feature whose cmds holds the command
OwnerOf(cmd) ==
    LET owners == {i \in 1..Len(features) :
                      \E j \in 1..Len(features[i].cmds) : features[i].cmds[j].id = cmd.id}
    IN  IF owners = {} THEN "" ELSE features[CHOOSE i \in owners : TRUE].name

\* the method of a dispatch object that forwards to the loaded command
cmdMethodLines(f, cmd, assertFmt, assertArgs) ==
    <<EntLine(f, "%s %s (%s) {", <<cmd.returnType, membName(cmd), cmd.params>>)>>
    \o indentBlock(<<EntLine(f, assertFmt, assertArgs),
                     EntLine(f, "return _%s(%s);", <<membName(cmd), cmd.params>>)>>)
    \o <<EntLine(f, "}", <<>>)>>

issueGlobalCmds ==
    LET loaded == SelectSeq(globalCmds, LAMBDA cmd : cmd.name # "vkGetInstanceProcAddr")
    IN  <<Section("globalCmds"), Blank, Line("// Global commands", <<>>), Blank,
          Line("final class VkGlobalCmds {", <<>>)>>
        \o indentBlock(
            <<Blank, Line("this (PFN_vkGetInstanceProcAddr loader) {", <<>>)>>
            \o indentBlock(
                <<Line("_GetInstanceProcAddr = loader;", <<>>)>>
                \o [i \in 1..Len(loaded) |->
                        EntLine(OwnerOf(loaded[i]), "_%s%s = cast(PFN_%s)%sloader(null, \"%s\");",
                                <<membName(loaded[i]), loaded[i].name, loaded[i].name>>)])
            \o <<Line("}", <<>>)>>
            \o Flatten([i \in 1..Len(globalCmds) |->
                    <<Blank>>
                    \o cmdMethodLines(OwnerOf(globalCmds[i]), globalCmds[i],
                            "assert(_%s !is null, \"%s was not loaded.\");",
                            <<membName(globalCmds[i]), globalCmds[i].name>>)])
            \o <<Blank>>
            \o [i \in 1..Len(globalCmds) |->
                    EntLine(OwnerOf(globalCmds[i]), "private PFN_%s%s _%s;",
                            <<globalCmds[i].name, membName(globalCmds[i])>>)])
        \o <<Line("}", <<>>)>>

\* the body shared by issueInstanceCmds and issueDeviceCmds, which differ
\* in the tier they emit and in their texts
dispatchObject(kind, title, classFmt, ctorFmt, loaderFmt, loadFmt, assertFmt) ==
    LET feats == FeatsWith(kind)
    IN  <<Blank, Line(title, <<>>), Blank, Line(classFmt, <<>>)>>
        \o indentBlock(
            <<Blank, Line(ctorFmt, <<>>)>>
            \o indentBlock(
                <<Line(loaderFmt, <<>>)>>
                \o Flatten([i \in 1..Len(feats) |->
                        BlankUnlessFirst(i)
                        \o <<Line("// %s", <<feats[i].name>>)>>
                        \o beginGuard(feats[i])
                        \o [j \in 1..Len(feats[i][kind]) |->
                                EntLine(feats[i].name, loadFmt,
                                        <<membName(feats[i][kind][j]), feats[i][kind][j].name,
                                          feats[i][kind][j].name>>)]
                        \o endGuard(feats[i])]))
            \o <<Line("}", <<>>)>>
            \o Flatten([i \in 1..Len(feats) |->
                    <<Blank>>
                    \o beginGuard(feats[i])
                    \o Flatten([j \in 1..Len(feats[i][kind]) |->
                            <<EntLine(feats[i].name,
                                      IF j = 1 THEN "/// Commands for %s" ELSE "/// ditto",
                                      IF j = 1 THEN <<feats[i].name>> ELSE <<>>)>>
                            \o cmdMethodLines(feats[i].name, feats[i][kind][j], assertFmt,
                                    <<membName(feats[i][kind][j]), feats[i][kind][j].name, feats[i].name>>)])
                    \o endGuard(feats[i])])
            \o Flatten([i \in 1..Len(feats) |->
                    <<Blank, Line("// fields for %s", <<feats[i].name>>)>>
                    \o beginGuard(feats[i])
                    \o [j \in 1..Len(feats[i][kind]) |->
                            EntLine(feats[i].name, "private PFN_%s%s _%s;",
                                    <<feats[i][kind][j].name, membName(feats[i][kind][j])>>)]
                    \o endGuard(feats[i])]))
        \o <<Line("}", <<>>)>>

issueInstanceCmds ==
    <<Section("instanceCmds")>>
    \o dispatchObject("instanceCmds", "// Instance commands", "final class VkInstanceCmds {",
            "this (VkInstance instance, VkGlobalCmds globalCmds) {",
            "auto loader = globalCmds._GetInstanceProcAddr;",
            "_%s%s = cast(PFN_%s)%sloader(instance, \"%s\");",
            "assert(_%s !is null, \"%s was not loaded. Required by %s\");")

issueDeviceCmds ==
    <<Section("deviceCmds")>>
    \o dispatchObject("deviceCmds", "// Device commands", "final class VkDeviceCmds {",
            "this (VkDevice device, VkInstanceCmds instanceCmds) {",
            "auto loader = instanceCmds._GetDeviceProcAddr;",
            "_%s%s = cast(PFN_%s)%sloader(device, \"%s\");",
            "assert(_%s !is null, \"%s was not loaded. Requested by %s\");")

----------------------------------------------------------------------------
(* DGenerator.endFile, src/vkdgen.py lines 274-305 *)

\* self.opts.module, as gen_d_files.py sets it for the default package
optsModule == "vkd.vk"

\* the import blocks of every registered guard, written up front
guardImports ==
    Flatten([i \in 1..Len(featureGuardKeys) |->
        LET fg == featureGuards[featureGuardKeys[i]]
        IN  FeatureGuard_begin(fg)
            \o [j \in 1..Len(fg.stmts) |-> Line(fg.stmts[j], <<>>)]
            \o FeatureGuard_end(fg)
            \o <<Blank>>])

endFileHead ==
    <<Line("/// Vulkan D bindings generated automatically by vkdgen", <<>>),
      Line("/// See https://github.com/rtbo/vkdgen", <<>>),
      Line("module %s;", <<optsModule>>),
      Blank>>
    \o guardImports
    \o (IF headerVersion # <<>>
        THEN <<Section("headerVersion"), Line("enum VK_HEADER_VERSION = %s;", <<headerVersion>>)>>
        ELSE <<>>)

\* a plausible slip: the function pointers issued before the constants
endFileCalls_funcptrsFirst ==
    endFileHead
    \o issueBaseTypes \o issueHandles \o issueFuncptrs \o issueConsts
    \o issueEnums \o issueStructs
    \o issueCmdPtrAliases \o issueGlobalCmds \o issueInstanceCmds \o issueDeviceCmds

\* the calls endFile makes on its SourceFile, in order
endFileCalls ==
    endFileHead
    \o issueBaseTypes \o issueHandles \o issueConsts \o issueFuncptrs
    \o issueEnums \o issueStructs
    \o issueCmdPtrAliases \o issueGlobalCmds \o issueInstanceCmds \o issueDeviceCmds

\* out is the SourceFile as sf.writeOut(outFile) prints it
endFile ==
    /\ Running
    /\ feature = None
    /\ out' = Some(Run(SourceFile, endFileCalls))
    /\ UNCHANGED <<features, feature, globalCmds, headerVersion, crashed, nextId, nEvents>>

----------------------------------------------------------------------------
(* The main specification: the traversal driver's events, then endFile *)

FeatureNames == {"VK_VERSION_1_0", "VK_KHR_win32_surface", "VK_KHR_xcb_surface"}

PlainParam(t, n) == ParamElem(None, t, None, n)

ConstPtrParam(t, n) == ParamElem(<<"const", " ">>, t, <<"*", " ">>, n)

NoTypeInfo == TypeInfo(None, "", <<>>, <<>>, <<>>)

\* the type events of the main specification: one of each kind of entity
MainTypes ==
    {<<"VkFlags", TypeInfo(Some("basetype"), "uint32_t", <<>>, <<>>, <<>>)>>,
     <<"VkInstance", TypeInfo(Some("handle"), "VK_DEFINE_HANDLE", <<>>, <<>>, <<>>)>>,
     <<"VkSurfaceKHR", TypeInfo(Some("handle"), "VK_DEFINE_NON_DISPATCHABLE_HANDLE", <<>>, <<>>, <<>>)>>,
     <<"VK_HEADER_VERSION",
       TypeInfo(Some("define"), "", <<>>, <<"#define", " ">>,
                <<<<"#define", " ">>, <<"VK_HEADER_VERSION">>, <<" ", "69">>>>)>>,
     <<"VkExtent2D", TypeInfo(Some("struct"), "", <<PlainParam("uint32_t", "width")>>, <<>>, <<>>)>>,
     <<"PFN_vkFreeFunction",
       TypeInfo(Some("funcpointer"), "", <<>>,
                <<"typedef", " ", "void", " ", "(", "VKAPI_PTR", " ", "*">>,
                <<<<"typedef", " ", "void", " ", "(", "VKAPI_PTR", " ", "*">>,
                  <<"PFN_vkFreeFunction">>,
                  <<")", "(", "\n", " ">>, <<"void">>, <<"*", " ", "pUserData", ")", ";">>>>)>>}

\* the command events of the main specification: one per dispatch tier
MainCmds ==
    {<<"vkCreateInstance", CmdInfo("VkResult", <<ConstPtrParam("VkInstanceCreateInfo", "pCreateInfo")>>)>>,
     <<"getX", CmdInfo("void", <<PlainParam("VkDevice", "device")>>)>>,
     <<"doY", CmdInfo("void", <<>>)>>}

Init == GenIdle /\ TypeIdle /\ NormIdle

Next ==
    \/ \E name \in FeatureNames : beginFeature(name) /\ UNCHANGED <<typeVars, normVars, histVars>>
    \/ endFeature /\ UNCHANGED <<typeVars, normVars, histVars>>
    \/ \E t \in MainTypes : genType(t[2], t[1], None) /\ UNCHANGED <<typeVars, normVars, histVars>>
    \/ genEnum(<<"(", "~", "0", "U", ")">>, "VK_ATTACHMENT_UNUSED", None) /\ UNCHANGED <<typeVars, normVars, histVars>>
    \/ genGroup(<<[name |-> "VK_SUCCESS", strVal |-> <<"0">>]>>, "VkResult", None)
            /\ UNCHANGED <<typeVars, normVars, histVars>>
    \/ \E c \in MainCmds : genCmd(c[2], c[1], None) /\ UNCHANGED <<typeVars, normVars, histVars>>
    \/ endFile /\ UNCHANGED <<typeVars, normVars, histVars>>

Spec == Init /\ [][Next]_vars

----------------------------------------------------------------------------
(* Specification of the command classifier: one Feature, one command with  *)
(* any name and any parameter list                                         *)

CmdNames == globalCmdNames \cup {"vkGetDeviceProcAddr", "vkQueueSubmit"}

CmdParamElems ==
    {PlainParam(t, "p") : t \in {"VkInstance", "VkDevice", "VkQueue", "VkCommandBuffer"}}
    \cup {ConstPtrParam("VkDevice", "p")}

NextCmd ==
    \/ \E name \in FeatureNames :
            features = <<>> /\ beginFeature(name) /\ UNCHANGED <<typeVars, normVars, histVars>>
    \/ \E name \in CmdNames, ps \in SeqsUpTo(CmdParamElems, MaxParams) :
            /\ feature # None
            /\ OpenFeature.cmds = <<>>
            /\ genCmd(CmdInfo("void", ps), name, None)
            /\ UNCHANGED <<typeVars, normVars, histVars>>
    \/ endFeature /\ UNCHANGED <<typeVars, normVars, histVars>>

SpecCmd == Init /\ [][NextCmd]_vars

----------------------------------------------------------------------------
(* Specification of the handlers: one Feature, entity events of every      *)
(* kind, with and without alias, with names that are D keywords and with   *)
(* a handle of unknown kind                                                *)

\* the alias argument of a handler: None, or the name aliased
Aliases == {None, Some("VkAliased")}

KeywordParam == PlainParam("VkShaderModule", "module")

\* the type events: those of the main specification, a handle whose marker
\* is neither of the two known ones, a struct with a member named by a
\* keyword and a function pointer with a parameter named by a keyword
EvtTypes ==
    MainTypes \cup
    {<<"VkOddHandle", TypeInfo(Some("handle"), "VK_DEFINE_OTHER_HANDLE", <<>>, <<>>, <<>>)>>,
     <<"VkModuleInfo",
       TypeInfo(Some("struct"), "", <<KeywordParam, PlainParam("uint32_t", "width")>>, <<>>, <<>>)>>,
     <<"PFN_vkModuleFunction",
       TypeInfo(Some("funcpointer"), "", <<>>,
                <<"typedef", " ", "void", " ", "(", "VKAPI_PTR", " ", "*">>,
                <<<<"typedef", " ", "void", " ", "(", "VKAPI_PTR", " ", "*">>,
                  <<"PFN_vkModuleFunction">>,
                  <<")", "(", "\n", " ">>, <<"VkShaderModule">>, <<" ", "module", ")", ";">>>>)>>}

\* the command events: those of the main specification and a command with
\* a parameter named by a keyword
EvtCmds ==
    MainCmds \cup
    {<<"vkDestroyShaderModule",
       CmdInfo("void", <<PlainParam("VkDevice", "device"), KeywordParam>>)>>}

EvtEnumVal == <<"(", "~", "0", "U", ")">>

EvtGroupEnums == <<[name |-> "VK_SUCCESS", strVal |-> <<"0">>]>>

\* the record of a handler call: the handler, its name and alias arguments,
\* its element, and the open Feature before the call
Call(op, name, alias, arg) ==
    Some([op |-> op, name |-> name, alias |-> alias, arg |-> arg, before |-> feature])

NextEvt ==
    \/ \E name \in FeatureNames :
            /\ features = <<>>
            /\ beginFeature(name)
            /\ lastCall' = Call("beginFeature", name, None, <<>>)
            /\ UNCHANGED <<typeVars, normVars>>
    \/ \E t \in EvtTypes, alias \in Aliases :
            /\ genType(t[2], t[1], alias)
            /\ lastCall' = Call("genType", t[1], alias, t[2])
            /\ UNCHANGED <<typeVars, normVars>>
    \/ \E alias \in Aliases :
            /\ genEnum(EvtEnumVal, "VK_ATTACHMENT_UNUSED", alias)
            /\ lastCall' = Call("genEnum", "VK_ATTACHMENT_UNUSED", alias, EvtEnumVal)
            /\ UNCHANGED <<typeVars, normVars>>
    \/ \E alias \in Aliases :
            /\ genGroup(EvtGroupEnums, "VkResult", alias)
            /\ lastCall' = Call("genGroup", "VkResult", alias, EvtGroupEnums)
            /\ UNCHANGED <<typeVars, normVars>>
    \/ \E c \in EvtCmds :
            /\ genCmd(c[2], c[1], None)
            /\ lastCall' = Call("genCmd", c[1], None, c[2])
            /\ UNCHANGED <<typeVars, normVars>>
    \/ /\ endFeature
       /\ lastCall' = Call("endFeature", "", None, <<>>)
       /\ UNCHANGED <<typeVars, normVars>>

SpecEvt == Init /\ [][NextEvt]_vars

----------------------------------------------------------------------------
(* Specification of an emission routine that is abandoned: Features with   *)
(* structs are built, then issueStructs runs on a fresh SourceFile and     *)
(* either completes or is left by an exception raised after any number of  *)
(* its calls                                                               *)

\* the number of `with sf.indentBlock()` blocks open after the calls ops[1..k]
RECURSIVE OpenWithBlocks(_, _)
OpenWithBlocks(ops, k) ==
    IF k = 0 THEN 0
    ELSE OpenWithBlocks(ops, k - 1)
         + (IF ops[k].op = "enter" THEN 1 ELSE IF ops[k].op = "exit" THEN -1 ELSE 0)

\* the SourceFile when an exception raised after the calls ops[1..k] has
\* left the routine: Indenter.__exit__ has run for every open `with` block
\* (lines 44-45); nothing else is undone
abandon(sf, ops, k) ==
    [RunRange(sf, ops, 1, k) EXCEPT !.indent = @ - OpenWithBlocks(ops, k)]

AbortTypes == {t \in EvtTypes : t[2].category = Some("struct")}

issueStructsCompleted ==
    /\ Running
    /\ feature = None
    /\ out' = Some(Run(SourceFile, issueStructs))
    /\ UNCHANGED <<features, feature, globalCmds, headerVersion, crashed, nextId, nEvents>>

issueStructsAbandoned ==
    /\ Running
    /\ feature = None
    /\ \E k \in 0..(Len(issueStructs) - 1) : out' = Some(abandon(SourceFile, issueStructs, k))
    /\ crashed' = TRUE
    /\ UNCHANGED <<features, feature, globalCmds, headerVersion, nextId, nEvents>>

NextAbort ==
    \/ \E name \in FeatureNames : beginFeature(name) /\ UNCHANGED <<typeVars, normVars, histVars>>
    \/ \E t \in AbortTypes : genType(t[2], t[1], None) /\ UNCHANGED <<typeVars, normVars, histVars>>
    \/ endFeature /\ UNCHANGED <<typeVars, normVars, histVars>>
    \/ issueStructsCompleted /\ UNCHANGED <<typeVars, normVars, histVars>>
    \/ issueStructsAbandoned /\ UNCHANGED <<typeVars, normVars, histVars>>

SpecAbort == Init /\ [][NextAbort]_vars

----------------------------------------------------------------------------
(* Claims *)

\* the Features built so far: the closed ones, then the open one if any
AllFeatures == features \o feature

\* the commands of every Feature's cmds
AllCmds == Flatten([i \in 1..Len(AllFeatures) |-> AllFeatures[i].cmds])

Holds(cmds, cmd) == \E j \in 1..Len(cmds) : cmds[j].id = cmd.id

Occurrences(cmds, id) == Cardinality({j \in 1..Len(cmds) : cmds[j].id = id})

\* how often the command object id sits in a dispatch tier list
TierCount(id) ==
    Occurrences(globalCmds, id)
    + Occurrences(Flatten([i \in 1..Len(AllFeatures) |-> AllFeatures[i].instanceCmds]), id)
    + Occurrences(Flatten([i \in 1..Len(AllFeatures) |-> AllFeatures[i].deviceCmds]), id)

\* C1: every command genCmd has handled is in the cmds of one Feature, once,
\* and in exactly one of the three dispatch tiers: the global list, or the
\* instance list or the device list of that same Feature.
C1_OneTier ==
    \A id \in 1..(nextId - 1) :
        /\ Occurrences(AllCmds, id) = 1
        /\ TierCount(id) = 1
        /\ \A i \in 1..Len(AllFeatures) :
              LET f == AllFeatures[i]
              IN  (Occurrences(f.instanceCmds, id) + Occurrences(f.deviceCmds, id) > 0)
                      => Occurrences(f.cmds, id) = 1

C1_Witness ==
    /\ globalCmds # <<>>
    /\ \E i \in 1..Len(AllFeatures) : AllFeatures[i].deviceCmds # <<>>

FirstParamIsDevice(cmd) ==
    Len(cmd.params) # 0 /\ cmd.params[1].typeStr \in DeviceParamTypes

SomeParamIsDevice(cmd) ==
    \E i \in 1..Len(cmd.params) : cmd.params[i].typeStr \in DeviceParamTypes

Ordinary(cmd) == cmd.name \notin globalCmdNames /\ cmd.name # "vkGetDeviceProcAddr"

\* C2 as stated: an ordinary command (not in the denylist, not
\* vkGetDeviceProcAddr) is a device command if a parameter at any position
\* has mapped type VkDevice, VkQueue or VkCommandBuffer, an instance command
\* otherwise.
C2_AnyParamDecides ==
    \A i \in 1..Len(AllFeatures) : \A j \in 1..Len(AllFeatures[i].cmds) :
        LET f == AllFeatures[i]  cmd == f.cmds[j]
        IN  Ordinary(cmd) =>
                /\ Holds(f.deviceCmds, cmd) <=> SomeParamIsDevice(cmd)
                /\ Holds(f.instanceCmds, cmd) <=> ~SomeParamIsDevice(cmd)

\* C2 amended: an ordinary command is a device command if its first
\* parameter has mapped type VkDevice, VkQueue or VkCommandBuffer, and an
\* instance command otherwise (no parameters, or another first type).
C2_FirstParamDecides ==
    \A i \in 1..Len(AllFeatures) : \A j \in 1..Len(AllFeatures[i].cmds) :
        LET f == AllFeatures[i]  cmd == f.cmds[j]
        IN  Ordinary(cmd) =>
                /\ Holds(f.deviceCmds, cmd) <=> FirstParamIsDevice(cmd)
                /\ Holds(f.instanceCmds, cmd) <=> ~FirstParamIsDevice(cmd)
                /\ ~Holds(globalCmds, cmd)

C2_Witness ==
    \E i \in 1..Len(AllFeatures) : \E j \in 1..Len(AllFeatures[i].cmds) :
        LET cmd == AllFeatures[i].cmds[j]
        IN  /\ Ordinary(cmd)
            /\ SomeParamIsDevice(cmd)
            /\ ~FirstParamIsDevice(cmd)
            /\ Holds(AllFeatures[i].instanceCmds, cmd)

\* C3: a command named vkGetDeviceProcAddr is an instance command and never
\* a device command, whatever its parameters.
C3_DeviceProcAddrIsInstance ==
    \A i \in 1..Len(AllFeatures) : \A j \in 1..Len(AllFeatures[i].cmds) :
        LET f == AllFeatures[i]  cmd == f.cmds[j]
        IN  cmd.name = "vkGetDeviceProcAddr" =>
                /\ Holds(f.instanceCmds, cmd)
                /\ ~Holds(f.deviceCmds, cmd)
                /\ ~Holds(globalCmds, cmd)

C3_Witness ==
    \E i \in 1..Len(AllFeatures) : \E j \in 1..Len(AllFeatures[i].cmds) :
        LET cmd == AllFeatures[i].cmds[j]
        IN  /\ cmd.name = "vkGetDeviceProcAddr"
            /\ FirstParamIsDevice(cmd)
            /\ cmd.params[1].typeStr = <<"VkDevice">>

\* C4: a command whose name is in the global denylist is a global command
\* and neither an instance nor a device command, whatever its parameters.
C4_DenylistIsGlobal ==
    \A i \in 1..Len(AllFeatures) : \A j \in 1..Len(AllFeatures[i].cmds) :
        LET f == AllFeatures[i]  cmd == f.cmds[j]
        IN  cmd.name \in globalCmdNames =>
                /\ Holds(globalCmds, cmd)
                /\ ~Holds(f.instanceCmds, cmd)
                /\ ~Holds(f.deviceCmds, cmd)

C4_Witness ==
    \E i \in 1..Len(AllFeatures) : \E j \in 1..Len(AllFeatures[i].cmds) :
        LET cmd == AllFeatures[i].cmds[j]
        IN  /\ cmd.name \in globalCmdNames
            /\ FirstParamIsDevice(cmd)
            /\ Holds(globalCmds, cmd)

\* the lines endFile has written
OutLines == TheVal(out).lines

\* the calls of Feature.beginGuard and Feature.endGuard endFile has made
OutCalls == TheVal(out).calls

\* the places of the lines written with format fmt
Places(fmt) == {k \in 1..Len(OutLines) : OutLines[k].fmt = fmt}

\* the line with format fmt is written once, and before the one with format next
Before(fmt, next) ==
    /\ Cardinality(Places(fmt)) = 1
    /\ Cardinality(Places(next)) = 1
    /\ \A k \in Places(fmt) : \A n \in Places(next) : k < n

\* every line with format fmt lies after the title line from and before the title line to
Between(fmt, from, to) ==
    \A k \in Places(fmt) :
        /\ \A a \in Places(from) : a < k
        /\ \A b \in Places(to) : k < b

\* the part of the section order on which C5 and its amendment agree
SectionOrderCommon ==
    /\ \A h \in Places("enum VK_HEADER_VERSION = %s;") :
            \A b \in Places("// Basic types definition") : h < b
    /\ headerVersion # <<>> => Cardinality(Places("enum VK_HEADER_VERSION = %s;")) = 1
    /\ Before("// Basic types definition", "// Handles")
    /\ Before("// Handles", "// Non-dispatchable handles")
    /\ Before("// Enumerations", "// Structures")
    /\ Before("// Structures", "// Command pointer aliases")
    /\ Before("// Command pointer aliases", "// Global commands")
    /\ Before("// Global commands", "// Instance commands")
    /\ Before("// Instance commands", "// Device commands")

\* C5 as stated: endFile writes the sections in the order header version,
\* base types, handles, non-dispatchable handles, function pointer aliases,
\* constants, enumerations, structures, command pointer aliases, global,
\* instance and device dispatch object: function pointers before constants.
C5_FuncptrsBeforeConsts ==
    out # None =>
        /\ SectionOrderCommon
        /\ Before("// Non-dispatchable handles", "// Function pointers")
        /\ Before("// Function pointers", "// Constants")
        /\ Before("// Constants", "// Enumerations")

\* C5 amended: the same order, except that the constants are written
\* before the function pointer aliases: ..., non-dispatchable handles,
\* constants, function pointer aliases, enumerations, ...; the lines of the
\* constants and of the function pointers lie in their own sections.
C5_ConstsBeforeFuncptrs ==
    out # None =>
        /\ SectionOrderCommon
        /\ Before("// Non-dispatchable handles", "// Constants")
        /\ Before("// Constants", "// Function pointers")
        /\ Before("// Function pointers", "// Enumerations")
        /\ Between("enum %s%s = %s;", "// Constants", "// Function pointers")
        /\ Between("alias %s = %s function(", "// Function pointers", "// Enumerations")

C5_Witness ==
    /\ out # None
    /\ Places("enum %s%s = %s;") # {}
    /\ Places("alias %s = %s function(") # {}

\* C6: every call of a Feature's endGuard follows the call of that
\* Feature's beginGuard, leaves no feature-guard block open, and leaves the
\* indentation where it was before beginGuard; every beginGuard starts with
\* no feature-guard block open.
C6_GuardsBalanced ==
    out # None =>
        \A k \in 1..Len(OutCalls) :
            IF OutCalls[k].op = "beginGuard"
            THEN /\ OutCalls[k].depth = 0
                 /\ k < Len(OutCalls)
                 /\ OutCalls[k + 1].op = "endGuard"
            ELSE /\ k > 1
                 /\ OutCalls[k - 1].op = "beginGuard"
                 /\ OutCalls[k - 1].f = OutCalls[k].f
                 /\ OutCalls[k - 1].sec = OutCalls[k].sec
                 /\ OutCalls[k].depth = 0
                 /\ OutCalls[k].indent = OutCalls[k - 1].indent

\* a one-token guard and a two-token guard have been opened and closed, one
\* of them inside an indented block
C6_Witness ==
    /\ out # None
    /\ \E k \in 1..Len(OutCalls) :
            OutCalls[k].op = "endGuard" /\ OutCalls[k].f = "VK_KHR_xcb_surface"
    /\ \E k \in 1..Len(OutCalls) :
            /\ OutCalls[k].op = "endGuard" /\ OutCalls[k].f = "VK_KHR_win32_surface"
            /\ OutCalls[k].indent > 0

\* the guard tokens of the Feature named name, outermost first
GuardOf(name) ==
    IF name \in DOMAIN featureGuards THEN featureGuards[name].versionGuards ELSE <<>>

\* C7: every line written for an entity lies inside the guard blocks of the
\* Feature that owns the entity, one per token and in the listed order, and
\* inside no feature-guard block when that Feature has no guard; in every
\* section, the global dispatch object included.
C7_EntityLinesGuarded ==
    out # None =>
        \A k \in 1..Len(OutLines) :
            OutLines[k].own # "" => OutLines[k].guards = GuardOf(OutLines[k].own)

\* the sections whose entities are grouped by Feature, each with the
\* sequence of the Feature that holds its entities and the number of times
\* the section's routine goes through the Features' groups
GroupedSections ==
    {<<"baseTypes", "baseTypes", 1>>, <<"handles", "handles", 1>>,
     <<"ndHandles", "ndHandles", 2>>, <<"consts", "consts", 1>>,
     <<"funcptrs", "funcptrs", 1>>, <<"enums", "enums", 1>>,
     <<"structs", "structs", 1>>, <<"cmdPtrAliases", "cmds", 1>>,
     <<"instanceCmds", "instanceCmds", 3>>, <<"deviceCmds", "deviceCmds", 3>>}

\* the number of guards opened for guarded Features in section sec
GuardOpenings(sec) ==
    Cardinality({k \in 1..Len(OutCalls) :
        OutCalls[k].op = "beginGuard" /\ OutCalls[k].guarded /\ OutCalls[k].sec = sec})

\* the number of guarded Features that contribute entities of kind
GuardedContributors(kind) ==
    Cardinality({i \in 1..Len(features) :
        features[i].guard # None /\ Len(features[i][kind]) > 0})

\* C8 as stated: in every section the guarded Features contribute to,
\* exactly one guard is opened per contributing guarded Feature.
C8_OneOpeningPerSection ==
    out # None =>
        \A s \in GroupedSections : GuardOpenings(s[1]) = GuardedContributors(s[2])

\* C8 amended: per contributing guarded Feature one guard is opened in the
\* base types, handles, constants, function pointers, enumerations,
\* structures and command pointer alias sections, two in the
\* non-dispatchable handles section (one per architecture branch) and three
\* in the instance and in the device dispatch object (constructor, methods,
\* fields).
C8_OpeningsPerSection ==
    out # None =>
        \A s \in GroupedSections : GuardOpenings(s[1]) = s[3] * GuardedContributors(s[2])

C8_Witness ==
    /\ out # None
    /\ GuardedContributors("ndHandles") > 0
    /\ GuardedContributors("instanceCmds") > 0
    /\ \E i \in 1..Len(features) : features[i].guard # None /\ features[i].consts = <<>>

\* the D pointer-to-const forms
DConst(T) == <<"const", "(">> \o T \o <<")", "*">>

\* a raw expression "const T*": const, one space, a T that does not start
\* with a space, and a final *
IsConstPtr(s) ==
    /\ Len(s) >= 4
    /\ s[1] = "const" /\ s[2] = " " /\ s[3] # " "
    /\ s[Len(s)] = "*"

\* the places k of a raw expression "const T*" whose T is "G* const", G
\* being s[3..k-1] and s[k] the * after it: then the expression is "const G* const*"
ConstPtrConstAt(s) ==
    {k \in 4..(Len(s) - 3) :
        /\ s[k] = "*"
        /\ AllSpace(s, k + 1, Len(s) - 2)
        /\ s[Len(s) - 1] = "const"}

\* the raw expression of a parameter written  q <type>T</type> tl <name>x</name>
IsShaped(e) ==
    /\ Len(e.children) = 2
    /\ e.text \in {<<"const", " ">>, <<"const", " ", "struct", " ">>}
    /\ e.children[2].tail = None

\* C9: a type expression "const T*" is mapped to "const(T)*" and
\* "const T* const*" to "const(T*)*", by convertDTypeConst and by
\* makeDParamType; the double-indirection rule is tried first and the
\* single-indirection rule only when it does not match, so that exactly one
\* rule rewrites an expression and "const T* const*" never becomes
\* "const(T* const)*".
C9_ConstRewrite ==
    /\ (typeOp = "convert" /\ IsConstPtr(pElem.text)) =>
            LET s == pElem.text
                T == SubSeq(s, 3, Len(s) - 1)
            IN  IF ConstPtrConstAt(s) # {}
                THEN LET k == CHOOSE k \in ConstPtrConstAt(s) : TRUE
                     IN  /\ typeStr = DConst(SubSeq(s, 3, k - 1) \o <<"*">>)
                         /\ typeStr # DConst(T)
                ELSE typeStr = DConst(T)
    /\ (typeOp = "param" /\ IsShaped(pElem)) =>
            LET tl == Strip(noneStr(pElem.children[1].tail))
            IN  /\ tl = <<"*">> => typeStr = DConst(<<"T">>)
                /\ tl = <<"*", " ", "const", "*">> => typeStr = DConst(<<"T", "*">>)

C9_Witness ==
    /\ typeOp = "convert"
    /\ pElem.text = <<"const", " ", "T", "*", " ", "const", "*">>
    /\ typeStr = <<"const", "(", "T", "*", ")", "*">>

\* C10: enumeration literal normalization is idempotent: normalizing a
\* normalized value leaves it unchanged, for every value text over the
\* literal characters.
C10_Idempotent == normCount >= 2 => curVal = prevVal

\* the Params stored in the entities es (Structs or Commands)
ParamsIn(es) ==
    UNION {{es[i].params[j] : j \in 1..Len(es[i].params)} : i \in 1..Len(es)}

\* the Params of structure fields, of command parameters and of
\* function-pointer parameters stored in the Features
StructParams == UNION {ParamsIn(AllFeatures[i].structs) : i \in 1..Len(AllFeatures)}
CmdParams == UNION {ParamsIn(AllFeatures[i].cmds) : i \in 1..Len(AllFeatures)}
FuncptrParams == UNION {ParamsIn(AllFeatures[i].funcptrs) : i \in 1..Len(AllFeatures)}

\* C11: no Param stored in the Feature Model, be it a structure field, a
\* command parameter or a function-pointer parameter, is named by a D
\* keyword: a registry name equal to a keyword is stored with "_" appended.
C11_NoKeywordNames ==
    \A p \in StructParams \cup CmdParams \cup FuncptrParams : p.name \notin dkeywords

\* the handler call made last
LastCall == TheVal(lastCall)

\* the last call was one of handler op with an alias
AliasedCall(op) == lastCall # None /\ LastCall.op = op /\ LastCall.alias # None

\* C12 as stated: aliases are never modelled: a type event, an enum event
\* or an enum-group event with an alias leaves every sequence of the open
\* Feature as it was (no BaseType, handle, Struct, Const or Enum appended).
C12_AliasesDropped ==
    \A op \in {"genType", "genEnum", "genGroup"} :
        AliasedCall(op) => feature = LastCall.before

\* C12 amended: a type event with an alias leaves every sequence of the
\* open Feature as it was; an enum event with an
\* alias is logged and appends its Const, with the normalized value, as
\* without alias; an enum-group event with an alias is logged and appends
\* its Enum as without alias.
C12_OnlyTypeAliasesDropped ==
    /\ AliasedCall("genType") => feature = LastCall.before
    /\ AliasedCall("genEnum") =>
            feature = Some([TheVal(LastCall.before) EXCEPT
                                !.consts = Append(@, Const(LastCall.name, <<"~", "0">>))])
    /\ AliasedCall("genGroup") =>
            feature = Some([TheVal(LastCall.before) EXCEPT
                                !.enums = Append(@, Enum(LastCall.name, <<"VK_SUCCESS">>, <<<<"0">>>>))])

\* an aliased base type has been handed over to an open Feature that holds
\* a Const
C12_Witness ==
    /\ AliasedCall("genType")
    /\ LastCall.arg.category = Some("basetype")
    /\ feature # None
    /\ Len(OpenFeature.consts) = 1

\* the last call was a type event without alias for a handle whose kind
\* marker is marker
HandleCall(marker) ==
    /\ lastCall # None
    /\ LastCall.op = "genType"
    /\ LastCall.alias = None
    /\ LastCall.arg.category = Some("handle")
    /\ LastCall.arg.type = marker

\* C17: a handle type event with marker VK_DEFINE_HANDLE appends the name
\* to the open Feature's handles only, one with marker
\* VK_DEFINE_NON_DISPATCHABLE_HANDLE to its ndHandles only, and one with any
\* other marker ends the run in a failed assertion with the open Feature,
\* its handles and ndHandles included, unchanged.
C17_HandleKinds ==
    /\ HandleCall("VK_DEFINE_HANDLE") =>
            /\ ~crashed
            /\ feature = Some([TheVal(LastCall.before) EXCEPT !.handles = Append(@, LastCall.name)])
    /\ HandleCall("VK_DEFINE_NON_DISPATCHABLE_HANDLE") =>
            /\ ~crashed
            /\ feature = Some([TheVal(LastCall.before) EXCEPT !.ndHandles = Append(@, LastCall.name)])
    /\ (\E t \in EvtTypes : /\ t[2].type \notin {"VK_DEFINE_HANDLE", "VK_DEFINE_NON_DISPATCHABLE_HANDLE"}
                            /\ HandleCall(t[2].type)) =>
            /\ crashed
            /\ feature = LastCall.before
    /\ crashed => lastCall # None /\ LastCall.op = "genType"

\* a handle of unknown kind has been handed over to a Feature that already
\* holds a handle
C17_Witness ==
    /\ HandleCall("VK_DEFINE_OTHER_HANDLE")
    /\ crashed
    /\ Len(OpenFeature.handles) + Len(OpenFeature.ndHandles) = 1

\* C13: the Feature list holds the closed Features in the order of their
\* end-feature events: a step either leaves the list as it is or is an
\* end-feature that appends the open Feature, as it is, to the end and
\* clears the open-Feature reference; the open-Feature reference is cleared
\* by no other step; no step, of a later Feature or of emission, changes a
\* Feature already in the list.
C13_ClosedFeaturesFrozen ==
    [][/\ Len(features') >= Len(features)
       /\ \A i \in 1..Len(features) : features'[i] = features[i]
       /\ features' # features =>
            /\ feature # None
            /\ features' = Append(features, TheVal(feature))
            /\ feature' = None
       /\ (feature # None /\ feature' = None) => features' = Append(features, TheVal(feature))
      ]_vars

\* two Features with entities are closed, the second after the first, and
\* emission has run
C13_Witness ==
    /\ Len(features) = 2
    /\ features[1].cmds # <<>>
    /\ features[2].structs # <<>>
    /\ feature = None
    /\ out # None

\* the number of calls op (beginGuard or endGuard) made for the Feature
\* named name in section sec
GuardCalls(op, name, sec) ==
    Cardinality({k \in 1..Len(OutCalls) :
        OutCalls[k].op = op /\ OutCalls[k].f = name /\ OutCalls[k].sec = sec})

\* the places in the Feature list of the Features with a guard
GuardedFeatures == {i \in 1..Len(features) : features[i].guard # None}

EndToEndCase ==
    /\ out # None
    /\ Len(features) = 2
    /\ features[1].guard = None
    /\ Len(features[1].cmds) = 1
    /\ features[1].cmds[1].name = "getX"
    /\ Len(features[1].cmds[1].params) >= 1
    /\ features[1].cmds[1].params[1].typeStr = <<"VkDevice">>
    /\ features[2].guard # None
    /\ Len(TheVal(features[2].guard).versionGuards) = 1
    /\ Len(features[2].cmds) = 1
    /\ features[2].cmds[1].name = "doY"
    /\ features[2].cmds[1].params = <<>>

\* the places of the lines the three dispatch objects hold for the commands
\* of the Feature named name
DispatchLines(name) ==
    {k \in 1..Len(OutLines) :
        /\ OutLines[k].own = name
        /\ OutLines[k].sec \in {"globalCmds", "instanceCmds", "deviceCmds"}}

\* C15: in the end-to-end case the lines of getX in the dispatch objects
\* (its load, its method, its field) all lie in the device dispatch object
\* inside no guard block, and the lines of doY all lie in the instance
\* dispatch object inside exactly one version block, that of the platform
\* token of its Feature.
C15_EndToEnd ==
    EndToEndCase =>
        /\ Cardinality(DispatchLines(features[1].name)) = 7
        /\ \A k \in DispatchLines(features[1].name) :
                OutLines[k].sec = "deviceCmds" /\ OutLines[k].guards = <<>>
        /\ Cardinality(DispatchLines(features[2].name)) = 7
        /\ \A k \in DispatchLines(features[2].name) :
                /\ OutLines[k].sec = "instanceCmds"
                /\ OutLines[k].guards = TheVal(features[2].guard).versionGuards

C15_Witness ==
    /\ EndToEndCase
    /\ \E k \in DispatchLines(features[2].name) :
            OutLines[k].fmt = "return _%s(%s);" /\ OutLines[k].guards = <<"Windows">>

\* C16: when an emission routine entered at indentation level 0 is left,
\* by completing or by an exception raised at any point inside it, be it
\* inside an indentBlock or between a Feature guard's begin and end, the
\* indentation level of the SourceFile is 0 again.
C16_IndentRestored == out # None => TheVal(out).indent = 0

====
